---- MODULE Spec2Model ----
(***************************************************************************)
(* A model of rs-gfa: the optional-field codec (optfields.rs), the line    *)
(* parser (parser.rs) and the writer (writer.rs).                          *)
(*                                                                         *)
(* Byte strings are sequences of byte values (0..255).  Every fallible     *)
(* call has one of three outcomes: None, Some(x), or Panic (the call       *)
(* aborts: a failed assert!, an out-of-range index or slice).  A call that *)
(* returns a plain value has the outcomes Some(x) and Panic.               *)
(***************************************************************************)
EXTENDS Integers, Sequences, FiniteSets, TLC

VARIABLES
    pc,        \* the last operation performed
    newTag,    \* OptField::new: the tag argument
    newValue,  \* OptField::new: the value argument
    field,     \* outcome of OptField::new
    text,      \* the bytes given to OptField::parse (Display output or a raw token)
    decoded,   \* outcome of OptField::parse
    store,     \* GFAParser<T>: the optional-field container T, "Unit" or "Vec"
    config,    \* the GFAParsingConfig the parser was made with
    filter,    \* GFAParser.filter: the filter string captured by the closure
    via,       \* the constructor that made the parser
    line,      \* the line given to parse_line
    parsedLine,\* outcome of parse_line
    allLines,  \* the lines given to parse_all
    gfa,       \* outcome of parse_all
    rec,       \* the record given to the writer
    written,   \* outcome of the writer: the line it wrote
    supplied,  \* the tokens given to OptFields::parse
    container, \* outcome of OptFields::parse: the container of optional fields
    askedTag,  \* the tag given to get_field
    found      \* outcome of get_field

codecVars == <<newTag, newValue, field, text, decoded>>
parserVars == <<store, config, filter, via, line, parsedLine, allLines, gfa>>
writerVars == <<rec, written>>
storeVars == <<supplied, container, askedTag, found>>
vars == <<pc, codecVars, parserVars, writerVars, storeVars>>

(***************************************************************************)
(* Outcomes                                                                *)
(***************************************************************************)
None == [kind |-> "None"]
Some(x) == [kind |-> "Some", val |-> x]
Panic == [kind |-> "Panic"]

(***************************************************************************)
(* Bytes that occur as literals in the source                              *)
(***************************************************************************)
b_TAB == 9
b_PLUS == 43
b_COMMA == 44
b_MINUS == 45
b_DOT == 46
b_COLON == 58
b_STAR == 42
b_EQ == 61
b_A == 65
b_B == 66
b_C == 67
b_F == 70
b_H == 72
b_I == 73
b_J == 74
b_L == 76
b_N == 78
b_P == 80
b_S == 83
b_V == 86
b_Z == 90
b_f == 102
b_i == 105

(***************************************************************************)
(* Byte classes: u8::is_ascii_*, and the character classes of the regexes  *)
(***************************************************************************)
is_ascii_digit(b) == b >= 48 /\ b <= 57
is_ascii_alphabetic(b) == (b >= 65 /\ b <= 90) \/ (b >= 97 /\ b <= 122)
is_ascii_alphanumeric(b) == is_ascii_alphabetic(b) \/ is_ascii_digit(b)

IsSign(b) == b = b_MINUS \/ b = b_PLUS
\* [!-~]
IsVisible(b) == b >= 33 /\ b <= 126
\* [ !-~]
IsPrintable(b) == b = 32 \/ IsVisible(b)
\* [0-9A-F]
IsUpperHex(b) == is_ascii_digit(b) \/ (b >= 65 /\ b <= 70)

(***************************************************************************)
(* Sequence helpers                                                        *)
(***************************************************************************)
Drop(s, n) == SubSeq(s, n + 1, Len(s))

\* F(x), with x evaluated once however often F uses it.
Eval(x, F(_)) == CHOOSE r \in {F(v) : v \in {x}} : TRUE

\* Regex::find for a pattern  [class]+ : the leftmost maximal run of bytes
\* of the class.
FindRun(s, InClass(_)) ==
    LET starts == {p \in 1..Len(s) : InClass(s[p])}
    IN  IF starts = {} THEN None
        ELSE LET p == CHOOSE q \in starts : \A r \in starts : q <= r
                 e == CHOOSE j \in p..Len(s) :
                          /\ \A k \in p..j : InClass(s[k])
                          /\ (j = Len(s) \/ ~InClass(s[j + 1]))
             IN  Some(SubSeq(s, p, e))

\* The end of the maximal run of digits that starts at p (p - 1 if s[p] is no digit).
DigitsEnd(s, p) ==
    IF p > Len(s) \/ ~is_ascii_digit(s[p]) THEN p - 1
    ELSE CHOOSE j \in p..Len(s) :
             /\ \A k \in p..j : is_ascii_digit(s[k])
             /\ (j = Len(s) \/ ~is_ascii_digit(s[j + 1]))

\* bstr split_str with a one-byte needle: the pieces between the separators;
\* an empty haystack gives one empty piece.
RECURSIVE Split(_, _)
Split(s, sep) ==
    LET hits == {p \in 1..Len(s) : s[p] = sep}
    IN  IF hits = {} THEN <<s>>
        ELSE LET p == CHOOSE q \in hits : \A r \in hits : q <= r
             IN  <<SubSeq(s, 1, p - 1)>> \o Split(Drop(s, p), sep)

\* Iterator::filter_map over a sequence of outcomes: keeps the Some values.
RECURSIVE FilterSome(_)
FilterSome(os) ==
    IF os = <<>> THEN <<>>
    ELSE IF Head(os).kind = "Some" THEN <<Head(os).val>> \o FilterSome(Tail(os))
    ELSE FilterSome(Tail(os))

(***************************************************************************)
(* Numbers as text                                                         *)
(***************************************************************************)
RECURSIVE DecValue(_)
DecValue(ds) ==
    IF ds = <<>> THEN 0
    ELSE 10 * DecValue(SubSeq(ds, 1, Len(ds) - 1)) + (ds[Len(ds)] - 48)

RECURSIVE DecDigits(_)
DecDigits(n) ==
    IF n < 10 THEN <<48 + n>>
    ELSE DecDigits(n \div 10) \o <<48 + (n % 10)>>

RECURSIVE StripZeros(_)
StripZeros(ds) ==
    IF Len(ds) > 1 /\ Head(ds) = 48 THEN StripZeros(Tail(ds)) ELSE ds

\* Lexicographic a <= b for digit strings of the same length.
RECURSIVE DigitsLeq(_, _)
DigitsLeq(a, b) ==
    IF a = <<>> THEN TRUE
    ELSE IF Head(a) /= Head(b) THEN Head(a) < Head(b)
    ELSE DigitsLeq(Tail(a), Tail(b))

\* The digits of 2^63 - 1 and of 2^63.
I64MaxDigits == <<57,50,50,51,51,55,50,48,51,54,56,53,52,55,55,53,56,48,55>>
I64MinDigits == <<57,50,50,51,51,55,50,48,51,54,56,53,52,55,55,53,56,48,56>>

\* str::parse::<i64>: an optional sign, then one or more digits and nothing
\* else; a number outside the 64-bit signed range is an error.
ParseI64(s) ==
    LET signed == s /= <<>> /\ IsSign(s[1])
        ds == IF signed THEN Tail(s) ELSE s
        neg == signed /\ s[1] = b_MINUS
        sig == StripZeros(ds)
        lim == IF neg THEN I64MinDigits ELSE I64MaxDigits
    IN  IF ds = <<>> \/ \E k \in 1..Len(ds) : ~is_ascii_digit(ds[k]) THEN None
        ELSE IF Len(sig) > Len(lim) \/ (Len(sig) = Len(lim) /\ ~DigitsLeq(sig, lim))
        THEN None
        ELSE Some(IF neg THEN 0 - DecValue(sig) ELSE DecValue(sig))

\* Display for i64.
DisplayI64(n) == IF n < 0 THEN <<b_MINUS>> \o DecDigits(0 - n) ELSE DecDigits(n)

(***************************************************************************)
(* f32.  A float is the pair <<m, k>> that stands for m / 10^k, with k the *)
(* least such exponent (0 stands for both zeros, which compare equal).     *)
(* The literals of the model have few digits, where f32 keeps decimal      *)
(* literals apart, and no exponent, "inf" or "nan": no value given to the *)
(* float parser in the model holds the letters e, E, n or N.               *)
(***************************************************************************)
RECURSIVE NormF32(_, _)
NormF32(m, k) ==
    IF k > 0 /\ m % 10 = 0 THEN NormF32(m \div 10, k - 1) ELSE <<m, k>>

\* str::parse::<f32>: sign? ( digits | digits '.' digits? | '.' digits )
ParseF32(s) ==
    LET signed == s /= <<>> /\ IsSign(s[1])
        body == IF signed THEN Tail(s) ELSE s
        neg == signed /\ s[1] = b_MINUS
        dots == {p \in 1..Len(body) : body[p] = b_DOT}
        ip == IF dots = {} THEN body
              ELSE SubSeq(body, 1, (CHOOSE p \in dots : TRUE) - 1)
        fp == IF dots = {} THEN <<>>
              ELSE Drop(body, CHOOSE p \in dots : TRUE)
        mag == DecValue(ip \o fp)
    IN  IF \/ Cardinality(dots) > 1
           \/ \E k \in 1..Len(body) : ~(is_ascii_digit(body[k]) \/ body[k] = b_DOT)
           \/ Len(ip) + Len(fp) = 0
        THEN None
        ELSE Some(NormF32(IF neg THEN 0 - mag ELSE mag, Len(fp)))

RECURSIVE Pow10(_)
Pow10(k) == IF k = 0 THEN 1 ELSE 10 * Pow10(k - 1)

RECURSIVE PadZeros(_, _)
PadZeros(ds, n) == IF Len(ds) >= n THEN ds ELSE PadZeros(<<48>> \o ds, n)

\* Display for f32: never an exponent; an integral value has no fraction part.
DisplayF32(x) ==
    LET m == x[1]
        k == x[2]
        mag == IF m < 0 THEN 0 - m ELSE m
        sign == IF m < 0 THEN <<b_MINUS>> ELSE <<>>
    IN  IF k = 0 THEN sign \o DecDigits(mag)
        ELSE sign \o DecDigits(mag \div Pow10(k)) \o <<b_DOT>>
                  \o PadZeros(DecDigits(mag % Pow10(k)), k)

(***************************************************************************)
(* optfields.rs: OptFieldVal and OptField                                  *)
(***************************************************************************)
OptFieldVal_A(x) == [kind |-> "A", val |-> x]
OptFieldVal_Int(x) == [kind |-> "Int", val |-> x]
OptFieldVal_Float(x) == [kind |-> "Float", val |-> x]
OptFieldVal_Z(x) == [kind |-> "Z", val |-> x]
OptFieldVal_J(x) == [kind |-> "J", val |-> x]
OptFieldVal_H(x) == [kind |-> "H", val |-> x]
OptFieldVal_BInt(x) == [kind |-> "BInt", val |-> x]
OptFieldVal_BFloat(x) == [kind |-> "BFloat", val |-> x]

\* A variant of OptField::tag without its last assertion.
OptField_tag_FirstByteOnly(t) ==
    IF Len(t) /= 2 THEN Panic
    ELSE IF ~is_ascii_alphabetic(t[1]) THEN Panic
    ELSE Some(<<t[1], t[2]>>)

\* OptField::tag: three assertions, then the two bytes.
OptField_tag(t) ==
    IF Len(t) /= 2 THEN Panic
    ELSE IF ~is_ascii_alphabetic(t[1]) THEN Panic
    ELSE IF ~is_ascii_alphanumeric(t[2]) THEN Panic
    ELSE Some(<<t[1], t[2]>>)

\* OptField::new
OptField_new(tag, value) ==
    LET t == OptField_tag(tag)
    IN  IF t.kind = "Panic" THEN Panic
        ELSE Some([tag |-> t.val, value |-> value])

\* RE_CHAR.find: the first visible byte.
RE_CHAR_find(s) ==
    LET hits == {p \in 1..Len(s) : IsVisible(s[p])}
    IN  IF hits = {} THEN None
        ELSE Some(<<s[CHOOSE q \in hits : \A r \in hits : q <= r]>>)

\* RE_INT.find, [-+]?[0-9]+ : the leftmost place where a digit, or a sign
\* and a digit, stands; the match runs to the end of the digits.
RE_INT_find(s) ==
    LET starts == {p \in 1..Len(s) :
                      \/ is_ascii_digit(s[p])
                      \/ IsSign(s[p]) /\ p < Len(s) /\ is_ascii_digit(s[p + 1])}
    IN  IF starts = {} THEN None
        ELSE LET p == CHOOSE q \in starts : \A r \in starts : q <= r
                 d == IF IsSign(s[p]) THEN p + 1 ELSE p
             IN  Some(SubSeq(s, p, DigitsEnd(s, d)))

\* Where a match of RE_FLOAT, [-+]?[0-9]*\.?[0-9]+([eE][-+]?[0-9]+)?, that
\* starts at p ends (0: no match starts at p).  The exponent group needs an
\* e or E, which no input of the model holds.
FloatMatchEnd(s, p) ==
    LET q == IF IsSign(s[p]) THEN p + 1 ELSE p
        r == DigitsEnd(s, q)
    IN  IF r + 2 <= Len(s) /\ s[r + 1] = b_DOT /\ is_ascii_digit(s[r + 2])
        THEN DigitsEnd(s, r + 2)
        ELSE IF r >= q THEN r
        ELSE 0

RE_FLOAT_find(s) ==
    LET starts == {p \in 1..Len(s) : FloatMatchEnd(s, p) > 0}
    IN  IF starts = {} THEN None
        ELSE LET p == CHOOSE q \in starts : \A r \in starts : q <= r
             IN  Some(SubSeq(s, p, FloatMatchEnd(s, p)))

RE_STRING_find(s) == FindRun(s, IsPrintable)

RE_BYTES_find(s) == FindRun(s, IsUpperHex)

\* char::to_digit(16)
to_digit_16(c) ==
    IF is_ascii_digit(c) THEN Some(c - 48)
    ELSE IF c >= 65 /\ c <= 70 THEN Some(c - 55)
    ELSE IF c >= 97 /\ c <= 102 THEN Some(c - 87)
    ELSE None

\* Option::and_then
AndThen(o, F(_)) == Eval(o, LAMBDA r : IF r.kind = "Some" THEN F(r.val) ELSE r)

\* The bytes "AifZJHB" of the type check.
TypeBytes == {b_A, b_i, b_f, b_Z, b_J, b_H, b_B}

\* The `B` arm, were a piece that does not parse to fail the whole field.
ParseArray_FailOnBadPiece(o_contents) ==
    IF Len(o_contents) = 0 THEN Panic
    ELSE LET first == o_contents[1]
             rest == Split(Tail(o_contents), b_COMMA)
             parsed == [k \in 1..Len(rest) |->
                           IF first = b_f THEN ParseF32(rest[k]) ELSE ParseI64(rest[k])]
         IN  IF \E k \in 1..Len(rest) : parsed[k].kind = "None" THEN None
             ELSE IF first = b_f
             THEN Some(OptFieldVal_BFloat(FilterSome(parsed)))
             ELSE Some(OptFieldVal_BInt(FilterSome(parsed)))

\* The `B` arm: o_contents[0] is read whatever the length; the rest is
\* split on commas and every piece that parses is kept.
ParseArray(o_contents) ==
    IF Len(o_contents) = 0 THEN Panic
    ELSE LET first == o_contents[1]
             rest == Split(Tail(o_contents), b_COMMA)
         IN  IF first = b_f
             THEN Some(OptFieldVal_BFloat(
                      FilterSome([k \in 1..Len(rest) |-> ParseF32(rest[k])])))
             ELSE Some(OptFieldVal_BInt(
                      FilterSome([k \in 1..Len(rest) |-> ParseI64(rest[k])])))

\* The match on o_type.
ParseValue(o_type, o_contents) ==
    CASE o_type = b_A ->
             LET m == RE_CHAR_find(o_contents)
             IN  IF m.kind = "Some" THEN Some(OptFieldVal_A(m.val[1])) ELSE None
      [] o_type = b_i ->
             LET n == AndThen(RE_INT_find(o_contents), ParseI64)
             IN  IF n.kind = "Some" THEN Some(OptFieldVal_Int(n.val)) ELSE None
      [] o_type = b_f ->
             LET x == AndThen(RE_FLOAT_find(o_contents), ParseF32)
             IN  IF x.kind = "Some" THEN Some(OptFieldVal_Float(x.val)) ELSE None
      [] o_type = b_Z ->
             LET m == RE_STRING_find(o_contents)
             IN  IF m.kind = "Some" THEN Some(OptFieldVal_Z(m.val)) ELSE None
      [] o_type = b_J ->
             LET m == RE_STRING_find(o_contents)
             IN  IF m.kind = "Some" THEN Some(OptFieldVal_J(m.val)) ELSE None
      [] o_type = b_H ->
             LET m == RE_BYTES_find(o_contents)
             IN  IF m.kind = "Some"
                 THEN Some(OptFieldVal_H(
                          FilterSome([k \in 1..Len(m.val) |-> to_digit_16(m.val[k])])))
                 ELSE None
      [] o_type = b_B -> ParseArray(o_contents)
      [] OTHER -> Panic

\* OptField::parse
OptField_parse(input) ==
    IF Len(input) < 2 THEN None
    ELSE IF Len(input) < 4 THEN None
    ELSE IF input[4] \notin TypeBytes THEN None
    ELSE IF Len(input) < 5 THEN None
    ELSE Eval(ParseValue(input[4], Drop(input, 5)),
              LAMBDA o_val :
                  IF o_val.kind = "Some"
                  THEN OptField_new(SubSeq(input, 1, 2), o_val.val)
                  ELSE o_val)

\* Display for char::from(u8): the UTF-8 form of the code point.
DisplayChar(x) ==
    IF x < 128 THEN <<x>> ELSE <<192 + (x \div 64), 128 + (x % 64)>>

\* Display for BString: the bytes, with U+FFFD for a byte that is no UTF-8
\* (every byte above 127 of the model stands alone).
RECURSIVE DisplayBString(_)
DisplayBString(x) ==
    IF x = <<>> THEN <<>>
    ELSE (IF Head(x) < 128 THEN <<Head(x)>> ELSE <<239, 191, 189>>)
         \o DisplayBString(Tail(x))

\* {:x} for u32
RECURSIVE LowerHex(_)
LowerHex(a) ==
    LET d == a % 16
        c == IF d < 10 THEN 48 + d ELSE 87 + d
    IN  IF a < 16 THEN <<c>> ELSE LowerHex(a \div 16) \o <<c>>

RECURSIVE ConcatMap(_, _)
ConcatMap(F(_), xs) ==
    IF xs = <<>> THEN <<>> ELSE F(Head(xs)) \o ConcatMap(F, Tail(xs))

CommaI64(a) == <<b_COMMA>> \o DisplayI64(a)
CommaF32(a) == <<b_COMMA>> \o DisplayF32(a)

\* impl Display for OptField
OptField_fmt(self) ==
    LET head == <<self.tag[1], self.tag[2], b_COLON>>
        x == self.value.val
        k == self.value.kind
    IN  CASE k = "A" -> Some(head \o <<b_A, b_COLON>> \o DisplayChar(x))
          [] k = "Int" -> Some(head \o <<b_i, b_COLON>> \o DisplayI64(x))
          [] k = "Float" -> Some(head \o <<b_f, b_COLON>> \o DisplayF32(x))
          [] k = "Z" -> Some(head \o <<b_Z, b_COLON>> \o DisplayBString(x))
          [] k = "J" -> Some(head \o <<b_J, b_COLON>> \o DisplayBString(x))
          [] k = "H" -> Some(head \o <<b_H, b_COLON>> \o ConcatMap(LowerHex, x))
          [] k = "BInt" ->
                 IF x = <<>> THEN Panic
                 ELSE Some(head \o <<b_B, b_COLON, b_I>> \o DisplayI64(x[1])
                           \o ConcatMap(CommaI64, Tail(x)))
          [] k = "BFloat" ->
                 IF x = <<>> THEN Panic
                 ELSE Some(head \o <<b_B, b_COLON, b_F>> \o DisplayF32(x[1])
                           \o ConcatMap(CommaF32, Tail(x)))

(***************************************************************************)
(* optfields.rs: the two OptFields containers                              *)
(***************************************************************************)
OptFields_unit == [store |-> "Unit", fields |-> <<>>]
OptFields_vec(fs) == [store |-> "Vec", fields |-> fs]

\* OptFields::fields
OptFields_fields(self) == IF self.store = "Unit" THEN <<>> ELSE self.fields

\* Iterator::find(|o| o.tag == tag) from position i, taking the last match.
RECURSIVE find_tag_Last(_, _, _)
find_tag_Last(fs, tag, i) ==
    IF i < 1 THEN None
    ELSE IF fs[i].tag = tag THEN Some(fs[i])
    ELSE find_tag_Last(fs, tag, i - 1)

\* Iterator::find(|o| o.tag == tag) from position i.
RECURSIVE find_tag(_, _, _)
find_tag(fs, tag, i) ==
    IF i > Len(fs) THEN None
    ELSE IF fs[i].tag = tag THEN Some(fs[i])
    ELSE find_tag(fs, tag, i + 1)

OptFields_get_field_LastMatch(self, tag) ==
    IF self.store = "Unit" THEN None
    ELSE find_tag_Last(self.fields, tag, Len(self.fields))

\* OptFields::get_field
OptFields_get_field(self, tag) ==
    IF self.store = "Unit" THEN None
    ELSE find_tag(self.fields, tag, 1)

\* OptFields::parse for () and for Vec<OptField>: () never looks at the
\* tokens; the Vec decodes every token and keeps the fields.
OptFields_parse(T, input) ==
    IF T = "Unit" THEN Some(OptFields_unit)
    ELSE Eval([k \in 1..Len(input) |-> OptField_parse(input[k])],
              LAMBDA ds :
                  IF \E k \in 1..Len(ds) : ds[k].kind = "Panic" THEN Panic
                  ELSE Some(OptFields_vec(FilterSome(ds))))

(***************************************************************************)
(* parser.rs: the line grammars.  `input` is the sequence of tokens left   *)
(* after the marker; input.next() takes them in order.                     *)
(***************************************************************************)
\* Iterator::next for the k-th token.
NextToken(input, k) == IF k <= Len(input) THEN Some(input[k]) ELSE None

\* [!-)+-<>-~]
IsNameStart(b) ==
    (b >= 33 /\ b <= 41) \/ (b >= 43 /\ b <= 60) \/ (b >= 62 /\ b <= 126)
\* [A-Za-z=.]
IsSeqByte(b) == is_ascii_alphabetic(b) \/ b = b_EQ \/ b = b_DOT

\* The end of the maximal run of visible bytes that starts at p (p - 1 if none).
VisibleEnd(s, p) ==
    IF p > Len(s) \/ ~IsVisible(s[p]) THEN p - 1
    ELSE CHOOSE j \in p..Len(s) :
             /\ \A k \in p..j : IsVisible(s[k])
             /\ (j = Len(s) \/ ~IsVisible(s[j + 1]))

\* parse_name: RE.find of [!-)+-<>-~][!-~]* in the next token.
parse_name(input, k) ==
    LET next == NextToken(input, k)
    IN  IF next.kind = "None" THEN None
        ELSE LET s == next.val
                 starts == {p \in 1..Len(s) : IsNameStart(s[p])}
             IN  IF starts = {} THEN None
                 ELSE LET p == CHOOSE q \in starts : \A r \in starts : q <= r
                      IN  Some(SubSeq(s, p, VisibleEnd(s, p + 1)))

\* parse_sequence: RE.find of \*|[A-Za-z=.]+ in the next token.
parse_sequence(input, k) ==
    LET next == NextToken(input, k)
    IN  IF next.kind = "None" THEN None
        ELSE LET s == next.val
                 starts == {p \in 1..Len(s) : s[p] = b_STAR \/ IsSeqByte(s[p])}
             IN  IF starts = {} THEN None
                 ELSE LET p == CHOOSE q \in starts : \A r \in starts : q <= r
                      IN  IF s[p] = b_STAR THEN Some(<<b_STAR>>)
                          ELSE FindRun(Drop(s, p - 1), IsSeqByte)

\* Orientation::from_bytes: "+" is Forward, "-" is Backward.
Orientation_from_bytes(bs) ==
    IF bs = <<b_PLUS>> THEN Some("Forward")
    ELSE IF bs = <<b_MINUS>> THEN Some("Backward")
    ELSE None

\* input.next().and_then(O::from_bytes)
parse_orient(input, k) == AndThen(NextToken(input, k), Orientation_from_bytes)

\* The digits of 2^64 - 1.
U64MaxDigits == <<49,56,52,52,54,55,52,52,48,55,51,55,48,57,53,53,49,54,49,53>>

\* str::parse::<usize>: an optional '+', then digits; no '-'.  The value is
\* kept as its digits without leading zeros.
ParseUsize(s) ==
    LET ds == IF s /= <<>> /\ s[1] = b_PLUS THEN Tail(s) ELSE s
        sig == StripZeros(ds)
    IN  IF ds = <<>> \/ \E k \in 1..Len(ds) : ~is_ascii_digit(ds[k]) THEN None
        ELSE IF \/ Len(sig) > Len(U64MaxDigits)
                \/ Len(sig) = Len(U64MaxDigits) /\ ~DigitsLeq(sig, U64MaxDigits)
        THEN None
        ELSE Some(DecValue(sig))

\* impl ParseGFA for Header<T>
Header_parse_line(T, input) ==
    LET next == NextToken(input, 1)
    IN  IF next.kind = "None" THEN None
        ELSE Eval(OptField_parse(next.val),
                  LAMBDA version :
                      IF version.kind /= "Some" THEN version
                      ELSE Eval(OptFields_parse(T, Tail(input)),
                                LAMBDA optional :
                                    IF optional.kind = "Panic" THEN Panic
                                    ELSE IF version.val.value.kind = "Z"
                                    THEN Some([version |-> Some(version.val.value.val),
                                               optional |-> optional.val])
                                    ELSE None))

\* impl ParseGFA for Segment<BString, T>
Segment_parse_line(T, input) ==
    LET name == parse_name(input, 1)
        sequence == parse_sequence(input, 2)
    IN  IF name.kind = "None" THEN None
        ELSE IF sequence.kind = "None" THEN None
        ELSE Eval(OptFields_parse(T, Drop(input, 2)),
                  LAMBDA optional :
                  IF optional.kind = "Panic" THEN Panic
                   ELSE Some([name |-> name.val, sequence |-> sequence.val,
                             optional |-> optional.val]))

\* impl ParseGFA for Link<BString, T>
Link_parse_line(T, input) ==
    LET from_segment == parse_name(input, 1)
        from_orient == parse_orient(input, 2)
        to_segment == parse_name(input, 3)
        to_orient == parse_orient(input, 4)
        overlap == NextToken(input, 5)
    IN  IF from_segment.kind = "None" THEN None
        ELSE IF from_orient.kind = "None" THEN None
        ELSE IF to_segment.kind = "None" THEN None
        ELSE IF to_orient.kind = "None" THEN None
        ELSE IF overlap.kind = "None" THEN None
        ELSE Eval(OptFields_parse(T, Drop(input, 5)),
                  LAMBDA optional :
                  IF optional.kind = "Panic" THEN Panic
                  ELSE Some([from_segment |-> from_segment.val,
                            from_orient |-> from_orient.val,
                            to_segment |-> to_segment.val,
                            to_orient |-> to_orient.val,
                            overlap |-> overlap.val,
                            optional |-> optional.val]))

\* impl ParseGFA for Containment<BString, T>
Containment_parse_line(T, input) ==
    LET container_name == parse_name(input, 1)
        container_orient == parse_orient(input, 2)
        contained_name == parse_name(input, 3)
        contained_orient == parse_orient(input, 4)
        pos == AndThen(NextToken(input, 5), ParseUsize)
        overlap == NextToken(input, 6)
    IN  IF container_name.kind = "None" THEN None
        ELSE IF container_orient.kind = "None" THEN None
        ELSE IF contained_name.kind = "None" THEN None
        ELSE IF contained_orient.kind = "None" THEN None
        ELSE IF pos.kind = "None" THEN None
        ELSE IF overlap.kind = "None" THEN None
        ELSE Eval(OptFields_parse(T, Drop(input, 6)),
                  LAMBDA optional :
                  IF optional.kind = "Panic" THEN Panic
                  ELSE Some([container_name |-> container_name.val,
                            container_orient |-> container_orient.val,
                            contained_name |-> contained_name.val,
                            contained_orient |-> contained_orient.val,
                            overlap |-> overlap.val,
                            pos |-> pos.val,
                            optional |-> optional.val]))

\* impl ParseGFA for Path<T>
Path_parse_line(T, input) ==
    LET path_name == parse_name(input, 1)
        segment_names == NextToken(input, 2)
        overlaps == NextToken(input, 3)
    IN  IF path_name.kind = "None" THEN None
        ELSE IF segment_names.kind = "None" THEN None
        ELSE IF overlaps.kind = "None" THEN None
        ELSE Eval(OptFields_parse(T, Drop(input, 3)),
                  LAMBDA optional :
                  IF optional.kind = "Panic" THEN Panic
                  ELSE Some([path_name |-> path_name.val,
                            segment_names |-> segment_names.val,
                            overlaps |-> Split(overlaps.val, b_COMMA),
                            optional |-> optional.val]))

(***************************************************************************)
(* parser.rs: GFAParsingConfig and GFAParser                               *)
(***************************************************************************)
GFAParsingConfig_none ==
    [segments |-> FALSE, links |-> FALSE, containments |-> FALSE, paths |-> FALSE]

GFAParsingConfig_all ==
    [segments |-> TRUE, links |-> TRUE, containments |-> TRUE, paths |-> TRUE]

\* impl Default for GFAParsingConfig
GFAParsingConfig_default == GFAParsingConfig_all

\* A variant of make_filter that lets link lines through whatever the flag.
make_filter_LinksAlways(self) ==
    <<b_H>>
    \o (IF self.segments THEN <<b_S>> ELSE <<>>)
    \o <<b_L>>
    \o (IF self.containments THEN <<b_C>> ELSE <<>>)
    \o (IF self.paths THEN <<b_P>> ELSE <<>>)

\* GFAParsingConfig::make_filter: the filter string the closure captures.
make_filter(self) ==
    <<b_H>>
    \o (IF self.segments THEN <<b_S>> ELSE <<>>)
    \o (IF self.links THEN <<b_L>> ELSE <<>>)
    \o (IF self.containments THEN <<b_C>> ELSE <<>>)
    \o (IF self.paths THEN <<b_P>> ELSE <<>>)

\* GFAParser::filter_line, the closure of make_filter: &s[0..1] is taken
\* whatever the length of the line.
filter_line(filter_string, s) ==
    IF Len(s) < 1 THEN Panic
    ELSE IF \E k \in 1..Len(filter_string) : filter_string[k] = s[1] THEN Some(s)
    ELSE None

\* The variants of Line.
Line_Header(x) == [kind |-> "Header", val |-> x]
Line_Segment(x) == [kind |-> "Segment", val |-> x]
Line_Link(x) == [kind |-> "Link", val |-> x]
Line_Containment(x) == [kind |-> "Containment", val |-> x]
Line_Path(x) == [kind |-> "Path", val |-> x]

\* Option::map with a Line variant.
MapLine(o, k) ==
    Eval(o, LAMBDA r : IF r.kind = "Some" THEN Some([kind |-> k, val |-> r.val]) ELSE r)

\* GFAParser::parse_line
parse_line(filter_string, T, l) ==
    LET passed == filter_line(filter_string, l)
    IN  IF passed.kind /= "Some" THEN passed
        ELSE Eval(Split(l, b_TAB),
                  LAMBDA fields :
                  LET hdr == fields[1]
                      rest == Tail(fields)
                  IN  CASE hdr = <<b_H>> ->
                               MapLine(Header_parse_line(T, rest), "Header")
                        [] hdr = <<b_S>> ->
                               MapLine(Segment_parse_line(T, rest), "Segment")
                        [] hdr = <<b_L>> ->
                               MapLine(Link_parse_line(T, rest), "Link")
                        [] hdr = <<b_C>> ->
                               MapLine(Containment_parse_line(T, rest), "Containment")
                        [] hdr = <<b_P>> ->
                               MapLine(Path_parse_line(T, rest), "Path")
                        [] OTHER -> None)

\* T::default()
OptFields_default(T) == IF T = "Unit" THEN OptFields_unit ELSE OptFields_vec(<<>>)

\* GFA::new
GFA_new(T) ==
    [header |-> [version |-> None, optional |-> OptFields_default(T)],
     segments |-> <<>>, links |-> <<>>, containments |-> <<>>, paths |-> <<>>]

\* GFA::insert_line
GFA_insert_line(g, l) ==
    CASE l.kind = "Header" -> [g EXCEPT !.header = l.val]
      [] l.kind = "Segment" -> [g EXCEPT !.segments = Append(@, l.val)]
      [] l.kind = "Link" -> [g EXCEPT !.links = Append(@, l.val)]
      [] l.kind = "Containment" -> [g EXCEPT !.containments = Append(@, l.val)]
      [] l.kind = "Path" -> [g EXCEPT !.paths = Append(@, l.val)]

\* GFAParser::parse_all: the loop over the lines.
RECURSIVE parse_all_from(_, _, _, _)
parse_all_from(filter_string, T, input, g) ==
    IF input = <<>> THEN Some(g)
    ELSE Eval(parse_line(filter_string, T, Head(input)),
              LAMBDA l :
                  IF l.kind = "Panic" THEN Panic
                  ELSE IF l.kind = "Some"
                  THEN Eval(GFA_insert_line(g, l.val),
                            LAMBDA g2 : parse_all_from(filter_string, T, Tail(input), g2))
                  ELSE parse_all_from(filter_string, T, Tail(input), g))

parse_all(filter_string, T, input) ==
    parse_all_from(filter_string, T, input, GFA_new(T))

(***************************************************************************)
(* writer.rs.  The writer's records carry named optional slots (Option     *)
(* values) and a list optional_fields of OptionalField.                    *)
(***************************************************************************)
\* Display for OptionalField: the codec's encode routine.
OptionalField_fmt(f) == OptField_fmt(f)

\* Display for Orientation
Orientation_fmt(o) == IF o = "Forward" THEN <<b_PLUS>> ELSE <<b_MINUS>>

\* write!(stream, "{}", field): the stream with the field's text appended.
WriteField(stream, f) ==
    Eval(OptionalField_fmt(f),
         LAMBDA t : IF stream.kind = "Panic" \/ t.kind = "Panic" THEN Panic
                    ELSE Some(stream.val \o t.val))

\* write_optional!: a slot that is Some(v) is written as the field tag:variant(v),
\* straight after what the stream holds.
write_optional(stream, variant, tag, val) ==
    IF val.kind = "Some"
    THEN WriteField(stream, [tag |-> tag, value |-> [kind |-> variant, val |-> val.val]])
    ELSE stream

\* write_optional_fields: a tab before every field but the first.
RECURSIVE write_optional_fields_from(_, _, _)
write_optional_fields_from(fields, i, stream) ==
    IF i > Len(fields) \/ stream.kind = "Panic" THEN stream
    ELSE Eval(WriteField(IF i > 1 THEN Some(stream.val \o <<b_TAB>>) ELSE stream,
                         fields[i]),
              LAMBDA st : write_optional_fields_from(fields, i + 1, st))

write_optional_fields(fields, stream) == write_optional_fields_from(fields, 1, stream)

\* write_header
write_header(version) ==
    IF version.kind = "Some"
    THEN Some(<<b_H, b_TAB, b_V, b_N, b_COLON, b_Z, b_COLON>> \o version.val)
    ELSE Some(<<b_H>>)

\* The write_optional! calls of a writer, one after the other: each slot
\* is <<variant, tag, value>>.
RECURSIVE write_optionals(_, _, _)
write_optionals(stream, slots, i) ==
    IF i > Len(slots) THEN stream
    ELSE Eval(write_optional(stream, slots[i][1], slots[i][2], slots[i][3]),
              LAMBDA st : write_optionals(st, slots, i + 1))

\* write_segment
write_segment(seg) ==
    Eval(write_optionals(
             Some(<<b_S, b_TAB>> \o seg.name \o <<b_TAB>> \o seg.sequence),
             <<<<"Int", <<b_L, b_N>>, seg.segment_length>>,
               <<"Int", <<82, b_C>>, seg.read_count>>,
               <<"Int", <<b_F, b_C>>, seg.fragment_count>>,
               <<"Int", <<75, b_C>>, seg.kmer_count>>,
               <<"H", <<b_S, b_H>>, seg.sha256>>,
               <<"Z", <<85, 82>>, seg.uri>>>>, 1),
         LAMBDA st : write_optional_fields(seg.optional_fields, st))

\* write_link
write_link(link) ==
    Eval(write_optionals(
             Some(<<b_L, b_TAB>> \o link.from_segment \o <<b_TAB>>
                  \o Orientation_fmt(link.from_orient) \o <<b_TAB>>
                  \o link.to_segment \o <<b_TAB>>
                  \o Orientation_fmt(link.to_orient) \o <<b_TAB>> \o link.overlap),
             <<<<"Int", <<b_L, b_N>>, link.map_quality>>,
               <<"Int", <<82, b_C>>, link.num_mismatches>>,
               <<"Int", <<82, b_C>>, link.read_count>>,
               <<"Int", <<b_F, b_C>>, link.fragment_count>>,
               <<"Int", <<75, b_C>>, link.kmer_count>>,
               <<"Z", <<b_S, b_H>>, link.edge_id>>>>, 1),
         LAMBDA st : write_optional_fields(link.optional_fields, st))

\* The for_each loops of write_path: the items joined by commas.
RECURSIVE JoinComma(_, _)
JoinComma(F(_), xs) ==
    IF xs = <<>> THEN <<>>
    ELSE IF Len(xs) = 1 THEN F(xs[1])
    ELSE F(xs[1]) \o <<b_COMMA>> \o JoinComma(F, Tail(xs))

NameAndOrient(no) == no[1] \o Orientation_fmt(no[2])
Verbatim(o) == o

\* write_path
write_path(path) ==
    write_optional_fields(path.optional_fields,
        Some(<<b_P, b_TAB>> \o path.path_name \o <<b_TAB>>
             \o JoinComma(NameAndOrient, path.segment_names) \o <<b_TAB>>
             \o JoinComma(Verbatim, path.overlaps)))


(***************************************************************************)
(* Bounds and input sets of the codec                                      *)
(***************************************************************************)
\* Longest tag argument given to OptField::new.
MaxTagLen == 3
\* Longest value part of a token given to OptField::parse.
MaxLen == 3
\* Longest payload (string, hex digits, array) of a constructed value.
MaxValLen == 2

SeqsUpTo(S, n) == UNION {[1..k -> S] : k \in 0..n}

\* 'L', '1', '_'
TagArgBytes == {b_L, 49, 95}
TagArgs == SeqsUpTo(TagArgBytes, MaxTagLen)

\* A space, '!', 'x' and a byte above 127.
CharPool == {32, 33, 120, 200}
IntPool == {-12, -1, 0, 7, 120}
\* 0, 2, 1.5, -0.5, 0.05
FloatPool == {<<0, 0>>, <<2, 0>>, <<15, 1>>, <<-5, 1>>, <<5, 2>>}
\* 'a', ' ', ':'
StringBytes == {97, 32, b_COLON}
NibblePool == {0, 9, 10, 15}

Values ==
    {OptFieldVal_A(x) : x \in CharPool}
    \cup {OptFieldVal_Int(x) : x \in IntPool}
    \cup {OptFieldVal_Float(x) : x \in FloatPool}
    \cup {OptFieldVal_Z(x) : x \in SeqsUpTo(StringBytes, MaxValLen)}
    \cup {OptFieldVal_J(x) : x \in SeqsUpTo(StringBytes, MaxValLen)}
    \cup {OptFieldVal_H(x) : x \in SeqsUpTo(NibblePool, MaxValLen)}
    \cup {OptFieldVal_BInt(x) : x \in SeqsUpTo({-1, 0, 12}, MaxValLen)}
    \cup {OptFieldVal_BFloat(x) : x \in SeqsUpTo({<<2, 0>>, <<15, 1>>}, MaxValLen)}

\* "LN", "1N", "L_"
TokenTags == {<<b_L, b_N>>, <<49, b_N>>, <<b_L, 95>>}
\* The seven type bytes and 'x'.
TokenTypes == TypeBytes \cup {120}
\* '1', '-', ',', '.', 'A', 'a', 'f', ' '
ContentBytes == {49, b_MINUS, b_COMMA, b_DOT, b_A, 97, b_f, 32}

\* Integers just outside the 64-bit signed range: "LN:i:9223372036854775808"
\* and "LN:i:-9223372036854775809".
WideTokens ==
    {<<76, 78, 58, 105, 58>> \o I64MinDigits,
     <<76, 78, 58, 105, 58, 45>> \o SubSeq(I64MinDigits, 1, 18) \o <<57>>}

\* Arrays of several pieces: "LN:B:I1,x,3", "LN:B:I3,,1", "LN:B:f1.5,x,2",
\* "LN:B:F1.5,2", "LN:B:i-7,+4,1.5" and "LN:B:f2,-.5,1.".
ArrayTokens ==
    {<<76, 78, 58, 66, 58, 73, 49, 44, 120, 44, 51>>, <<76, 78, 58, 66, 58, 73, 51, 44, 44, 49>>, <<76, 78, 58, 66, 58, 102, 49, 46, 53, 44, 120, 44, 50>>, <<76, 78, 58, 66, 58, 70, 49, 46, 53, 44, 50>>,
     <<76, 78, 58, 66, 58, 105, 45, 55, 44, 43, 52, 44, 49, 46, 53>>, <<76, 78, 58, 66, 58, 102, 50, 44, 45, 46, 53, 44, 49, 46>>}

\* TAG ':' TYPE ':' VALUE over the pools, and every prefix of TAG ':' TYPE ':'.
Tokens ==
    WideTokens \cup ArrayTokens \cup
    {tg \o <<b_COLON, ty, b_COLON>> \o c :
        tg \in TokenTags, ty \in TokenTypes, c \in SeqsUpTo(ContentBytes, MaxLen)}
    \cup {SubSeq(tg \o <<b_COLON, ty, b_COLON>>, 1, n) :
        tg \in TokenTags, ty \in TokenTypes, n \in 0..4}

(***************************************************************************)
(* The codec as a state machine: a field is constructed, displayed and     *)
(* parsed back, or a raw token is parsed.                                  *)
(***************************************************************************)
CodecIdle ==
    /\ newTag = <<>>
    /\ newValue = None
    /\ field = None
    /\ text = None
    /\ decoded = None

ParserIdle ==
    /\ store = "Unit"
    /\ config = GFAParsingConfig_none
    /\ filter = <<>>
    /\ via = "none"
    /\ line = <<>>
    /\ parsedLine = None
    /\ allLines = <<>>
    /\ gfa = None

WriterIdle ==
    /\ rec = None
    /\ written = None

StoreIdle ==
    /\ supplied = <<>>
    /\ container = None
    /\ askedTag = <<>>
    /\ found = None

CodecInit == pc = "start" /\ CodecIdle /\ ParserIdle /\ WriterIdle /\ StoreIdle

\* OptField::new(t, v)
New(t, v) ==
    /\ pc = "start"
    /\ newTag' = t
    /\ newValue' = v
    /\ field' = OptField_new(t, v)
    /\ pc' = "new"
    /\ UNCHANGED <<text, decoded, parserVars, writerVars, storeVars>>

\* format!("{}", field)
Fmt ==
    /\ pc = "new"
    /\ field.kind = "Some"
    /\ text' = OptField_fmt(field.val)
    /\ pc' = "fmt"
    /\ UNCHANGED <<newTag, newValue, field, decoded, parserVars, writerVars, storeVars>>

\* A token arrives from outside.
Token(tok) ==
    /\ pc = "start"
    /\ text' = Some(tok)
    /\ pc' = "token"
    /\ UNCHANGED <<newTag, newValue, field, decoded, parserVars, writerVars, storeVars>>

\* OptField::parse(text)
Parse ==
    /\ pc \in {"fmt", "token"}
    /\ text.kind = "Some"
    /\ decoded' = OptField_parse(text.val)
    /\ pc' = "parsed"
    /\ UNCHANGED <<newTag, newValue, field, text, parserVars, writerVars, storeVars>>

CodecNext ==
    \/ pc = "start" /\ \E t \in TagArgs, v \in Values : New(t, v)
    \/ Fmt
    \/ pc = "start" /\ \E tok \in Tokens : Token(tok)
    \/ Parse

SpecCodec == CodecInit /\ [][CodecNext]_vars

(***************************************************************************)
(* Bounds and input sets of the parser                                     *)
(***************************************************************************)
\* Most optional-field tokens after the fixed tokens of a line.
MaxOpt == 2
\* Most lines given to parse_all.
MaxLines == 2

RECURSIVE Join(_, _)
Join(toks, sep) ==
    IF toks = <<>> THEN <<>>
    ELSE IF Len(toks) = 1 THEN toks[1]
    ELSE toks[1] \o <<sep>> \o Join(Tail(toks), sep)

Prefixes(toks) == {SubSeq(toks, 1, n) : n \in 0..Len(toks)}

\* "LN:i:1" decodes, "LN:x:1" has no known type, "1N:i:1" has no valid tag.
OptTokens == {<<76, 78, 58, 105, 58, 49>>, <<76, 78, 58, 120, 58, 49>>, <<49, 78, 58, 105, 58, 49>>}
Trails == SeqsUpTo(OptTokens, MaxOpt)

\* Names "a", "*a", "=", ",a"; sequences "A", "*", "1", "A1".
SegmentFixed ==
    {<<n, q>> : n \in {<<97>>, <<42, 97>>, <<61>>, <<44, 97>>},
                q \in {<<65>>, <<42>>, <<49>>, <<65, 49>>}}
\* Names "a", "="; orientations "+", "-", "x"; overlap "4M".
LinkFixed ==
    {<<n, o1, <<98>>, o2, <<52, 77>>>> :
        n \in {<<97>>, <<61>>}, o1 \in {<<43>>, <<120>>}, o2 \in {<<45>>, <<120>>}}
\* Positions "1", "-1", "x".
ContainmentFixed ==
    {<<<<97>>, o1, <<98>>, <<43>>, p, <<52, 77>>>> :
        o1 \in {<<45>>, <<120>>}, p \in {<<49>>, <<45, 49>>, <<120>>}}
\* Overlap lists "4M,5M" and "*".
PathFixed ==
    {<<n, <<97, 43, 44, 98, 45>>, ov>> : n \in {<<97>>, <<61>>}, ov \in {<<52, 77, 44, 53, 77>>, <<42>>}}
\* "VN:Z:a", "XX:Z:a", "VN:i:1", "VN:x:1", "1N:Z:a"
HeaderFixed ==
    {<<t>> : t \in {<<86, 78, 58, 90, 58, 97>>, <<88, 88, 58, 90, 58, 97>>, <<86, 78, 58, 105, 58, 49>>, <<86, 78, 58, 120, 58, 49>>, <<49, 78, 58, 90, 58, 97>>}}

FixedOf(m) ==
    CASE m = b_H -> HeaderFixed
      [] m = b_S -> SegmentFixed
      [] m = b_L -> LinkFixed
      [] m = b_C -> ContainmentFixed
      [] m = b_P -> PathFixed

Markers == {b_H, b_S, b_L, b_C, b_P}

\* The empty line, "X\ta", a lone tab, "SS\ta\tA" and "s\ta\tA".
OddLines == {<<>>, <<88, 9, 97>>, <<9>>, <<83, 83, 9, 97, 9, 65>>, <<115, 9, 97, 9, 65>>}

\* Every marker with its fixed tokens and a trail of optional tokens, every
\* line cut short after some fixed token, and the odd lines.
Lines ==
    {Join(<<<<m>>>> \o fx \o tr, b_TAB) :
        m \in Markers, fx \in UNION {FixedOf(k) : k \in Markers}, tr \in {<<>>}}
    \cup UNION {{Join(<<<<m>>>> \o fx \o tr, b_TAB) : fx \in FixedOf(m), tr \in Trails} :
                   m \in Markers}
    \cup UNION {{Join(<<<<m>>>> \o pf, b_TAB) :
                    pf \in UNION {Prefixes(fx) : fx \in FixedOf(m)}} : m \in Markers}
    \cup OddLines

\* A segment, a link and a header that parse; an empty line, an unknown
\* marker, a segment with a bad name, a segment with a token of invalid tag.
StreamLines ==
    {<<83, 9, 97, 9, 65>>, <<76, 9, 97, 9, 43, 9, 98, 9, 45, 9, 52, 77>>, <<72, 9, 86, 78, 58, 90, 58, 97>>, <<>>, <<88, 9, 97>>,
     <<83, 9, 61, 9, 65>>, <<83, 9, 97, 9, 65, 9, 49, 78, 58, 105, 58, 49>>}
Streams == SeqsUpTo(StreamLines, MaxLines)

Configs ==
    [segments : BOOLEAN, links : BOOLEAN, containments : BOOLEAN, paths : BOOLEAN]
Stores == {"Unit", "Vec"}

(***************************************************************************)
(* The parser as a state machine: a parser is made, then given a line or   *)
(* a stream of lines.                                                      *)
(***************************************************************************)
\* GFAParser::with_config
with_config(c, T) ==
    /\ pc = "start"
    /\ config' = c
    /\ filter' = make_filter(c)
    /\ store' = T
    /\ via' = "with_config"
    /\ pc' = "parser"
    /\ UNCHANGED <<line, parsedLine, allLines, gfa, codecVars, writerVars, storeVars>>

\* GFAParser::new, GFAParser::default
default(T) ==
    /\ pc = "start"
    /\ config' = GFAParsingConfig_all
    /\ filter' = make_filter(GFAParsingConfig_all)
    /\ store' = T
    /\ via' = "default"
    /\ pc' = "parser"
    /\ UNCHANGED <<line, parsedLine, allLines, gfa, codecVars, writerVars, storeVars>>

\* parser.parse_line(l)
ParseLine(l) ==
    /\ pc = "parser"
    /\ line' = l
    /\ parsedLine' = parse_line(filter, store, l)
    /\ pc' = "line"
    /\ UNCHANGED <<store, config, filter, via, allLines, gfa, codecVars, writerVars, storeVars>>

\* parser.parse_all(ls)
ParseAll(ls) ==
    /\ pc = "parser"
    /\ allLines' = ls
    /\ gfa' = parse_all(filter, store, ls)
    /\ pc' = "all"
    /\ UNCHANGED <<store, config, filter, via, line, parsedLine, codecVars, writerVars, storeVars>>

ParserNext ==
    \/ pc = "start" /\ \E c \in Configs, T \in Stores : with_config(c, T)
    \/ pc = "start" /\ \E T \in Stores : default(T)
    \/ pc = "parser" /\ \E l \in Lines : ParseLine(l)
    \/ pc = "parser" /\ \E ls \in Streams : ParseAll(ls)

SpecParser == CodecInit /\ [][ParserNext]_vars

(***************************************************************************)
(* Bounds and input sets of the writer                                     *)
(***************************************************************************)
\* Most entries of optional_fields, and of the lists of a path.
MaxFields == 2

\* LN:i:1 and ZZ:Z:a
WriterFields ==
    {[tag |-> <<76, 78>>, value |-> OptFieldVal_Int(1)],
     [tag |-> <<90, 90>>, value |-> OptFieldVal_Z(<<97>>)]}
FieldLists == SeqsUpTo(WriterFields, MaxFields)

OptionOf(S) == {None} \cup {Some(x) : x \in S}

\* Versions "1" and "".
HeaderRecords == {[version |-> v] : v \in OptionOf({<<49>>, <<>>})}

\* Names "a", "s1"; sequences "A", "*".
SegmentRecords ==
    [name : {<<97>>, <<115, 49>>}, sequence : {<<65>>, <<42>>},
     segment_length : OptionOf({5}), read_count : OptionOf({2}),
     fragment_count : OptionOf({3}), kmer_count : OptionOf({4}),
     sha256 : OptionOf({<<1, 11>>}), uri : OptionOf({<<117>>}),
     optional_fields : FieldLists]

LinkRecords ==
    [from_segment : {<<97>>}, from_orient : {"Forward", "Backward"},
     to_segment : {<<98>>}, to_orient : {"Forward", "Backward"},
     overlap : {<<52, 77>>},
     map_quality : OptionOf({5}), num_mismatches : OptionOf({2}),
     read_count : OptionOf({3}), fragment_count : OptionOf({4}),
     kmer_count : OptionOf({6}), edge_id : OptionOf({<<101>>}),
     optional_fields : FieldLists]

\* Steps a+ and b-; overlaps "4M" and "*".
PathRecords ==
    [path_name : {<<97>>, <<112, 49>>},
     segment_names : SeqsUpTo({<<<<97>>, "Forward">>, <<<<98>>, "Backward">>}, MaxFields),
     overlaps : SeqsUpTo({<<52, 77>>, <<42>>}, MaxFields),
     optional_fields : FieldLists]

(***************************************************************************)
(* The writer as a state machine: a record is written, and the line is     *)
(* given to a default parser that keeps the optional fields.               *)
(***************************************************************************)
Written(k, r, out) ==
    /\ pc = "start"
    /\ rec' = Some([kind |-> k, val |-> r])
    /\ written' = out
    /\ pc' = "written"
    /\ UNCHANGED <<codecVars, parserVars, storeVars>>

WriteHeader(r) == Written("Header", r, write_header(r.version))
WriteSegment(r) == Written("Segment", r, write_segment(r))
WriteLink(r) == Written("Link", r, write_link(r))
WritePath(r) == Written("Path", r, write_path(r))

\* GFAParser::<OptionalFields>::new().parse_line(written)
Reparse ==
    /\ pc = "written"
    /\ written.kind = "Some"
    /\ config' = GFAParsingConfig_all
    /\ filter' = make_filter(GFAParsingConfig_all)
    /\ store' = "Vec"
    /\ via' = "default"
    /\ line' = written.val
    /\ parsedLine' = parse_line(make_filter(GFAParsingConfig_all), "Vec", written.val)
    /\ pc' = "reparsed"
    /\ UNCHANGED <<allLines, gfa, codecVars, writerVars, storeVars>>

WriterNext ==
    \/ pc = "start" /\ \E r \in HeaderRecords : WriteHeader(r)
    \/ pc = "start" /\ \E r \in SegmentRecords : WriteSegment(r)
    \/ pc = "start" /\ \E r \in LinkRecords : WriteLink(r)
    \/ pc = "start" /\ \E r \in PathRecords : WritePath(r)
    \/ Reparse

SpecWriter == CodecInit /\ [][WriterNext]_vars

(***************************************************************************)
(* The containers as a state machine: a container is parsed from tokens    *)
(* and then asked for a tag.                                               *)
(***************************************************************************)
\* "LN:i:1", "LN:i:7", "RC:Z:a", "LN:x:1", "1N:i:1"
StoreTokens ==
    {<<76, 78, 58, 105, 58, 49>>, <<76, 78, 58, 105, 58, 55>>, <<82, 67, 58, 90, 58, 97>>, <<76, 78, 58, 120, 58, 49>>, <<49, 78, 58, 105, 58, 49>>}
\* Most tokens given to OptFields::parse.
MaxStored == 3
StoreInputs == SeqsUpTo(StoreTokens, MaxStored)
\* "LN", "RC", "XX", "L", "LNX"
AskedTags == {<<76, 78>>, <<82, 67>>, <<88, 88>>, <<76>>, <<76, 78, 88>>}

\* T::parse(toks)
StoreParse(T, toks) ==
    /\ pc = "start"
    /\ supplied' = toks
    /\ container' = OptFields_parse(T, toks)
    /\ pc' = "stored"
    /\ UNCHANGED <<askedTag, found, codecVars, parserVars, writerVars>>

\* container.get_field(tag)
GetField(tag) ==
    /\ pc = "stored"
    /\ container.kind = "Some"
    /\ askedTag' = tag
    /\ found' = OptFields_get_field(container.val, tag)
    /\ pc' = "found"
    /\ UNCHANGED <<supplied, container, codecVars, parserVars, writerVars>>

StoreNext ==
    \/ pc = "start" /\ \E T \in Stores, toks \in StoreInputs : StoreParse(T, toks)
    \/ pc = "stored" /\ \E tag \in AskedTags : GetField(tag)

SpecStore == CodecInit /\ [][StoreNext]_vars

(***************************************************************************)
(* Properties of the codec, checked under SpecCodec                        *)
(***************************************************************************)

\* C1: every field built by OptField::new displays without aborting, and
\* parsing the displayed text gives back the same field.
C1_RoundTrip ==
    /\ pc = "fmt" => text.kind = "Some"
    /\ (pc = "parsed" /\ field.kind = "Some") => decoded = Some(field.val)

\* C1, the case of a hex nibble above 9: it is displayed in lower case, which
\* the parser does not read.
C1_LowerCaseHexLost ==
    /\ pc = "parsed"
    /\ field.kind = "Some"
    /\ field.val.value = OptFieldVal_H(<<10>>)
    /\ decoded = None

\* C3: OptField::parse returns a field or no field for every byte string; it
\* never aborts.
C3_DecodeTotal == pc = "parsed" => decoded.kind \in {"None", "Some"}

\* C3, the case of a token whose first two bytes are no valid tag.
C3_InvalidTagAborts ==
    /\ pc = "parsed"
    /\ field.kind = "None"
    /\ text = Some(<<49, 78, 58, 105, 58, 49>>)
    /\ decoded = Panic

Letters == (65..90) \cup (97..122)
Digits == 48..57

\* C10: OptField::new aborts for every tag that is not two bytes, a letter
\* and then a letter or digit, and for every other tag returns the field
\* with exactly those two bytes and the value it was given.
C10_TagValidity ==
    pc = "new" =>
        IF Len(newTag) = 2 /\ newTag[1] \in Letters /\ newTag[2] \in Letters \cup Digits
        THEN field = Some([tag |-> <<newTag[1], newTag[2]>>, value |-> newValue])
        ELSE field = Panic

\* C10, the case of a two-byte tag whose second byte is no letter or digit.
C10_BadSecondByteRejected ==
    /\ pc = "new"
    /\ newTag = <<b_L, 95>>
    /\ field = Panic

(***************************************************************************)
(* Properties of the parser, checked under SpecParser                      *)
(***************************************************************************)
AllFilter == make_filter(GFAParsingConfig_all)

\* The tokens of a line after its marker.
TokensOf(l) == Tail(Split(l, b_TAB))

\* The number of fixed tokens of the grammar of marker m.
FixedCount(m) ==
    CASE m = <<b_H>> -> 1
      [] m = <<b_S>> -> 2
      [] m = <<b_L>> -> 5
      [] m = <<b_C>> -> 6
      [] m = <<b_P>> -> 3
      [] OTHER -> 0

\* The decodes of the well-formed tokens among toks, in order.
WellFormedDecodes(toks) ==
    FilterSome([k \in 1..Len(toks) |-> OptField_parse(toks[k])])

\* C4: with the ordered-list store, a line whose fixed tokens are valid gives
\* a record whatever its trailing tokens are, and the record's optional list
\* is the decodes of the well-formed trailing tokens in order.  (The fixed
\* tokens are valid when the store that ignores the trailing tokens gives a
\* record.)
C4_LenientTokens ==
    (pc = "line" /\ store = "Vec" /\ parse_line(filter, "Unit", line).kind = "Some") =>
        /\ parsedLine.kind = "Some"
        /\ parsedLine.val.val.optional.fields =
               WellFormedDecodes(
                   Drop(TokensOf(line), FixedCount(Split(line, b_TAB)[1])))

\* C4, the case of a valid segment followed by a token of invalid tag.
C4_BadTokenAbortsRecord ==
    /\ pc = "line"
    /\ store = "Vec"
    /\ config = GFAParsingConfig_all
    /\ line = <<83, 9, 97, 9, 65, 9, 49, 78, 58, 105, 58, 49>>
    /\ parsedLine = Panic

\* What the lines ls add to g, each line on its own: a line that gives a
\* record adds it, any other line adds nothing.
RECURSIVE Contributions(_, _, _, _)
Contributions(f, T, ls, g) ==
    IF ls = <<>> THEN g
    ELSE Eval(parse_line(f, T, Head(ls)),
              LAMBDA r :
                  Contributions(f, T, Tail(ls),
                                IF r.kind = "Some" THEN GFA_insert_line(g, r.val) ELSE g))

\* C5: parse_all returns for every sequence of lines, and its result holds
\* the record of every line that gives one and nothing for any other line.
C5_ParseAllTotal ==
    pc = "all" =>
        /\ gfa.kind = "Some"
        /\ gfa.val = Contributions(filter, store, allLines, GFA_new(store))

\* C5, the case of an empty line in the stream.
C5_EmptyLineAborts ==
    /\ pc = "all"
    /\ allLines = <<<<83, 9, 97, 9, 65>>, <<>>>>
    /\ gfa = Panic

\* Whether the kind of marker byte b is enabled in configuration c.
KindEnabled(c, b) ==
    \/ b = b_H
    \/ b = b_S /\ c.segments
    \/ b = b_L /\ c.links
    \/ b = b_C /\ c.containments
    \/ b = b_P /\ c.paths

Dispatch(T, hdr, toks) ==
    CASE hdr = <<b_H>> -> MapLine(Header_parse_line(T, toks), "Header")
      [] hdr = <<b_S>> -> MapLine(Segment_parse_line(T, toks), "Segment")
      [] hdr = <<b_L>> -> MapLine(Link_parse_line(T, toks), "Link")
      [] hdr = <<b_C>> -> MapLine(Containment_parse_line(T, toks), "Containment")
      [] hdr = <<b_P>> -> MapLine(Path_parse_line(T, toks), "Path")
      [] OTHER -> None

\* C7: with every kind enabled, parse_line gives what the grammar selected
\* by the token before the first tab gives on the remaining tokens, and no
\* record when that token is none of H, S, L, C, P.
C7_Dispatch ==
    (pc = "line" /\ config = GFAParsingConfig_all) =>
        parsedLine = Dispatch(store, Split(line, b_TAB)[1], TokensOf(line))

\* C7, the case of the empty line, whose leading token is empty.
C7_EmptyLineAborts ==
    /\ pc = "line"
    /\ config = GFAParsingConfig_all
    /\ line = <<>>
    /\ parsedLine = Panic

\* Whether toks is exactly one token that decodes as a Z field tagged VN.
IsVersionToken(toks) ==
    /\ Len(toks) = 1
    /\ OptField_parse(toks[1]).kind = "Some"
    /\ OptField_parse(toks[1]).val.tag = <<b_V, b_N>>
    /\ OptField_parse(toks[1]).val.value.kind = "Z"

\* C8: a header line gives a header, holding the text as its version, only
\* when it has exactly one token and the token decodes as a Z field tagged
\* VN; every other header line gives no header.
C8_HeaderGrammar ==
    (pc = "line" /\ Split(line, b_TAB)[1] = <<b_H>>) =>
        IF IsVersionToken(TokensOf(line))
        THEN parsedLine =
                 Some(Line_Header(
                     [version |-> Some(OptField_parse(TokensOf(line)[1]).val.value.val),
                      optional |-> OptFields_default(store)]))
        ELSE parsedLine = None

\* C8, the case of a Z field with another tag.
C8_OtherTagAccepted ==
    /\ pc = "line"
    /\ line = <<72, 9, 88, 88, 58, 90, 58, 97>>
    /\ parsedLine.kind = "Some"
    /\ parsedLine.val.val.version = Some(<<97>>)

(***************************************************************************)
(* Properties of the writer, checked under SpecWriter                      *)
(***************************************************************************)
\* The named optional slots of a record that hold a value, as fields, in
\* the order the writer takes them.
SlotFieldsOf(slots) ==
    FilterSome([k \in 1..Len(slots) |->
        IF slots[k][3].kind = "Some"
        THEN Some([tag |-> slots[k][2],
                   value |-> [kind |-> slots[k][1], val |-> slots[k][3].val]])
        ELSE None])

\* Every optional field a written record holds, in stored order.
AllOptional(r) ==
    CASE r.kind = "Segment" ->
             SlotFieldsOf(<<<<"Int", <<76, 78>>, r.val.segment_length>>,
                            <<"Int", <<82, 67>>, r.val.read_count>>,
                            <<"Int", <<70, 67>>, r.val.fragment_count>>,
                            <<"Int", <<75, 67>>, r.val.kmer_count>>,
                            <<"H", <<83, 72>>, r.val.sha256>>,
                            <<"Z", <<85, 82>>, r.val.uri>>>>)
             \o r.val.optional_fields
      [] r.kind = "Link" ->
             SlotFieldsOf(<<<<"Int", <<76, 78>>, r.val.map_quality>>,
                            <<"Int", <<82, 67>>, r.val.num_mismatches>>,
                            <<"Int", <<82, 67>>, r.val.read_count>>,
                            <<"Int", <<70, 67>>, r.val.fragment_count>>,
                            <<"Int", <<75, 67>>, r.val.kmer_count>>,
                            <<"Z", <<83, 72>>, r.val.edge_id>>>>)
             \o r.val.optional_fields
      [] r.kind = "Path" -> r.val.optional_fields
      [] OTHER -> <<>>

\* The record the parser should give back for a written record.
ExpectedLine(r) ==
    CASE r.kind = "Header" ->
             Line_Header([version |-> r.val.version, optional |-> OptFields_vec(<<>>)])
      [] r.kind = "Segment" ->
             Line_Segment([name |-> r.val.name, sequence |-> r.val.sequence,
                           optional |-> OptFields_vec(AllOptional(r))])
      [] r.kind = "Link" ->
             Line_Link([from_segment |-> r.val.from_segment,
                        from_orient |-> r.val.from_orient,
                        to_segment |-> r.val.to_segment,
                        to_orient |-> r.val.to_orient,
                        overlap |-> r.val.overlap,
                        optional |-> OptFields_vec(AllOptional(r))])
      [] r.kind = "Path" ->
             Line_Path([path_name |-> r.val.path_name,
                        segment_names |-> JoinComma(NameAndOrient, r.val.segment_names),
                        overlaps |-> r.val.overlaps,
                        optional |-> OptFields_vec(AllOptional(r))])

\* C2: the line the writer emits for a record parses back to that record.
C2_RecordRoundTrip ==
    /\ pc = "written" => written.kind = "Some"
    /\ pc = "reparsed" => parsedLine = Some(ExpectedLine(rec.val))

\* C2, the case of a segment with one optional field: the field is lost and
\* the sequence is not the one written.
C2_SegmentFieldLost ==
    /\ pc = "reparsed"
    /\ rec.val.kind = "Segment"
    /\ AllOptional(rec.val) = <<[tag |-> <<76, 78>>, value |-> OptFieldVal_Int(1)]>>
    /\ rec.val.val.sequence = <<65>>
    /\ parsedLine.kind = "Some"
    /\ parsedLine.val.val.sequence = <<65, 76, 78>>
    /\ parsedLine.val.val.optional.fields = <<>>

\* The marker and the fixed fields of a record, tab-separated.
FixedPart(r) ==
    CASE r.kind = "Segment" ->
             Join(<<<<b_S>>, r.val.name, r.val.sequence>>, b_TAB)
      [] r.kind = "Link" ->
             Join(<<<<b_L>>, r.val.from_segment, Orientation_fmt(r.val.from_orient),
                    r.val.to_segment, Orientation_fmt(r.val.to_orient),
                    r.val.overlap>>, b_TAB)
      [] r.kind = "Path" ->
             Join(<<<<b_P>>, r.val.path_name,
                    JoinComma(NameAndOrient, r.val.segment_names),
                    JoinComma(Verbatim, r.val.overlaps)>>, b_TAB)

TabAndField(f) == <<b_TAB>> \o OptField_fmt(f).val

\* C9: a segment, link or path is written as its marker and fixed fields,
\* tab-separated, then every optional field as the codec displays it, each
\* preceded by exactly one tab.
C9_WriterLayout ==
    (pc = "written" /\ rec.val.kind \in {"Segment", "Link", "Path"}) =>
        written = Some(FixedPart(rec.val) \o ConcatMap(TabAndField, AllOptional(rec.val)))

\* C9, the case of a segment with one optional field: no tab stands between
\* the sequence and the field.
C9_NoTabBeforeFirstField ==
    /\ pc = "written"
    /\ rec.val.kind = "Segment"
    /\ rec.val.val.name = <<97>>
    /\ rec.val.val.sequence = <<65>>
    /\ AllOptional(rec.val) = <<[tag |-> <<76, 78>>, value |-> OptFieldVal_Int(1)]>>
    /\ written = Some(<<83, 9, 97, 9, 65, 76, 78, 58, 105, 58, 49>>)

(***************************************************************************)
(* Properties of the containers, checked under SpecStore                   *)
(***************************************************************************)
\* The positions of toks whose token decodes to a field.
DecodedAt(toks) == {k \in 1..Len(toks) : OptField_parse(toks[k]).kind = "Some"}

\* The j-th smallest position of the set of positions ks.
NthOf(ks, j) == CHOOSE k \in ks : Cardinality({i \in ks : i <= k}) = j

\* The positions of fs whose field has the tag.
MatchesOf(fs, tag) == {i \in 1..Len(fs) : fs[i].tag = tag}

\* C11: for a container that OptFields::parse returned, get_field gives the
\* first element of fields() with the tag asked, and none when no element
\* has it; fields() of the empty store is empty whatever the tokens were,
\* and fields() of the ordered-list store is the decodes of the tokens that
\* decode, in the order of the tokens.
C11_Lookup ==
    /\ (pc \in {"stored", "found"} /\ container.kind = "Some") =>
           IF container.val.store = "Unit"
           THEN OptFields_fields(container.val) = <<>>
           ELSE /\ Len(OptFields_fields(container.val)) = Cardinality(DecodedAt(supplied))
                /\ \A j \in 1..Len(OptFields_fields(container.val)) :
                       OptFields_fields(container.val)[j] =
                           OptField_parse(supplied[NthOf(DecodedAt(supplied), j)]).val
    /\ pc = "found" =>
           IF MatchesOf(OptFields_fields(container.val), askedTag) = {}
           THEN found = None
           ELSE found =
                    Some(OptFields_fields(container.val)[
                        NthOf(MatchesOf(OptFields_fields(container.val), askedTag), 1)])

\* C11, the case of two fields with the same tag: the earlier one is found.
C11_EarliestOfDuplicates ==
    /\ pc = "found"
    /\ supplied = <<<<76, 78, 58, 105, 58, 49>>, <<76, 78, 58, 120, 58, 49>>, <<76, 78, 58, 105, 58, 55>>>>
    /\ container.val.store = "Vec"
    /\ Len(OptFields_fields(container.val)) = 2
    /\ askedTag = <<76, 78>>
    /\ found = Some([tag |-> <<76, 78>>, value |-> OptFieldVal_Int(1)])

(***************************************************************************)
(* Properties of the fixed tokens, checked under SpecParser                *)
(***************************************************************************)
\* Whether the token as a whole is an identifier: a first byte that is
\* visible and none of '*', '=', ',', then visible bytes.
IsIdentifier(t) ==
    /\ t /= <<>>
    /\ t[1] \in 33..126
    /\ t[1] \notin {b_STAR, b_EQ, b_COMMA}
    /\ \A i \in 2..Len(t) : t[i] \in 33..126

\* Whether the token as a whole is a sequence: "*", or a run of letters,
\* '=' and '.'.
IsSequence(t) ==
    \/ t = <<b_STAR>>
    \/ /\ t /= <<>>
       /\ \A i \in 1..Len(t) : t[i] \in Letters \cup {b_EQ, b_DOT}

\* The name tokens of a line by its marker, each with the name the record
\* holds for it.
NamesOf(hdr, toks, r) ==
    CASE hdr = <<b_S>> -> {<<toks[1], r.name>>}
      [] hdr = <<b_L>> -> {<<toks[1], r.from_segment>>, <<toks[3], r.to_segment>>}
      [] hdr = <<b_C>> -> {<<toks[1], r.container_name>>, <<toks[3], r.contained_name>>}
      [] hdr = <<b_P>> -> {<<toks[1], r.path_name>>}
      [] OTHER -> {}

\* C12: a segment, link, containment or path is produced only if every name
\* token as a whole is an identifier and, for a segment, the sequence token
\* as a whole is a sequence; the names and the sequence the record holds
\* are the tokens of the line, byte for byte.
C12_StrictTokens ==
    (pc = "line" /\ parsedLine.kind = "Some") =>
        /\ \A p \in NamesOf(Split(line, b_TAB)[1], TokensOf(line), parsedLine.val.val) :
               IsIdentifier(p[1]) /\ p[2] = p[1]
        /\ Split(line, b_TAB)[1] = <<b_S>> =>
               /\ IsSequence(TokensOf(line)[2])
               /\ parsedLine.val.val.sequence = TokensOf(line)[2]

\* C12, the case of a segment whose name token starts with '*' and whose
\* sequence token ends with a digit: the record holds a part of each.
C12_PartOfTokenStored ==
    /\ pc = "line"
    /\ line = <<83, 9, 42, 97, 9, 65, 49>>
    /\ parsedLine.kind = "Some"
    /\ parsedLine.val.val.name = <<97>>
    /\ parsedLine.val.val.sequence = <<65>>

(***************************************************************************)
(* Properties of the value decoders, checked under SpecCodec               *)
(***************************************************************************)
\* The digits of a value part: what follows its sign, if it has one.
DigitsOf(v) == IF v /= <<>> /\ v[1] \in {b_PLUS, b_MINUS} THEN Tail(v) ELSE v

\* Whether the whole value part is an optional sign and then digits.
IsWholeInt(v) ==
    /\ DigitsOf(v) /= <<>>
    /\ \A i \in 1..Len(DigitsOf(v)) : DigitsOf(v)[i] \in Digits

\* Whether the number a whole integer denotes is in the 64-bit signed range.
FitsI64(v) ==
    LET sig == StripZeros(DigitsOf(v))
        lim == IF v[1] = b_MINUS THEN I64MinDigits ELSE I64MaxDigits
    IN  Len(sig) < Len(lim) \/ (Len(sig) = Len(lim) /\ DigitsLeq(sig, lim))

\* The number the digits ds denote, by place value.
RECURSIVE PlaceValue(_)
PlaceValue(ds) ==
    IF ds = <<>> THEN 0
    ELSE (Head(ds) - 48) * Pow10(Len(ds) - 1) + PlaceValue(Tail(ds))

\* The number a whole integer denotes.
IntOf(v) == IF v[1] = b_MINUS THEN 0 - PlaceValue(DigitsOf(v)) ELSE PlaceValue(DigitsOf(v))

\* Whether the first two bytes of a token are a tag.
HasTag(tok) == tok[1] \in Letters /\ tok[2] \in Letters \cup Digits

\* C13: for a token of type i with a tag, a decoded field is Int(n) with n
\* the number the whole value part denotes, an optional sign and then
\* digits, within the 64-bit signed range; a value part with any other
\* byte, or outside the range, decodes to no field.
C13_IntegerDecoding ==
    (pc = "parsed" /\ Len(text.val) >= 5 /\ text.val[4] = b_i /\ HasTag(text.val)) =>
        IF IsWholeInt(Drop(text.val, 5)) /\ FitsI64(Drop(text.val, 5))
        THEN decoded.kind = "Some" =>
                 decoded.val.value = OptFieldVal_Int(IntOf(Drop(text.val, 5)))
        ELSE decoded = None

\* C13, the case of digits followed by a letter: the digits are decoded.
C13_TrailingByteIgnored ==
    /\ pc = "parsed"
    /\ text = Some(<<76, 78, 58, 105, 58, 49, 97>>)
    /\ decoded = Some([tag |-> <<76, 78>>, value |-> OptFieldVal_Int(1)])

\* The pieces of an array payload: what follows its first byte, cut at the
\* commas.
PiecesOf(payload) == Split(Tail(payload), b_COMMA)

\* The element a piece parses to under the element type the first payload
\* byte selects.
ElementOf(first, piece) == IF first = b_f THEN ParseF32(piece) ELSE ParseI64(piece)

\* The positions of the pieces that parse.
ParsedAt(payload) ==
    {k \in 1..Len(PiecesOf(payload)) :
        ElementOf(payload[1], PiecesOf(payload)[k]).kind = "Some"}

\* C14: a token of type B with a tag and a payload decodes to a field with
\* that tag: a float array when the first payload byte is f, an int array
\* for any other first byte; its elements are what the comma-separated
\* pieces of the rest of the payload parse to, each on its own, the pieces
\* that do not parse left out and the others in the order of the pieces.
C14_ArrayDecoding ==
    (pc = "parsed" /\ Len(text.val) >= 6 /\ text.val[4] = b_B /\ HasTag(text.val)) =>
        /\ decoded.kind = "Some"
        /\ decoded.val.tag = <<text.val[1], text.val[2]>>
        /\ decoded.val.value.kind = (IF text.val[6] = b_f THEN "BFloat" ELSE "BInt")
        /\ Len(decoded.val.value.val) = Cardinality(ParsedAt(Drop(text.val, 5)))
        /\ \A j \in 1..Len(decoded.val.value.val) :
               decoded.val.value.val[j] =
                   ElementOf(text.val[6],
                             PiecesOf(Drop(text.val, 5))[
                                 NthOf(ParsedAt(Drop(text.val, 5)), j)]).val

\* C14, the case of an int array whose middle piece does not parse.
C14_BadPieceDropped ==
    /\ pc = "parsed"
    /\ text = Some(<<76, 78, 58, 66, 58, 73, 49, 44, 120, 44, 51>>)
    /\ decoded = Some([tag |-> <<76, 78>>, value |-> OptFieldVal_BInt(<<1, 3>>)])

(***************************************************************************)
(* Properties of the two stores in the grammars, checked under SpecParser  *)
(***************************************************************************)
OtherStore(T) == IF T = "Unit" THEN "Vec" ELSE "Unit"

\* The fixed fields of a record: the record without its optional slot.
FixedFields(r) == [f \in (DOMAIN r) \ {"optional"} |-> r[f]]

\* C15: a segment, link, containment or path line has the same outcome with
\* the empty store and with the ordered-list store: both give a record or
\* both give none, neither aborts where the other returns, and the fixed
\* fields of the two records are equal.
C15_StoreIndependence ==
    (pc = "line" /\ Split(line, b_TAB)[1] \in {<<b_S>>, <<b_L>>, <<b_C>>, <<b_P>>}) =>
        /\ parsedLine.kind = parse_line(filter, OtherStore(store), line).kind
        /\ parsedLine.kind = "Some" =>
               /\ parsedLine.val.kind = parse_line(filter, OtherStore(store), line).val.kind
               /\ FixedFields(parsedLine.val.val) =
                      FixedFields(parse_line(filter, OtherStore(store), line).val.val)

\* C15, the case of a valid link followed by a token of invalid tag: the
\* empty store gives the link, the ordered-list store aborts.
C15_OnlyOrderedListAborts ==
    /\ pc = "line"
    /\ store = "Unit"
    /\ config = GFAParsingConfig_all
    /\ line = <<76, 9, 97, 9, 43, 9, 98, 9, 45, 9, 52, 77, 9, 49, 78, 58, 105, 58, 49>>
    /\ parsedLine.kind = "Some"
    /\ parse_line(filter, "Vec", line) = Panic

====
